---- MODULE Spec2Model ----
(***************************************************************************)
(* GridApp (3by3): a 3x3 image grid filled by click-to-upload and          *)
(* drag-and-drop, rendered on a canvas and exported as a PNG.              *)
(*                                                                         *)
(* The browser runs one task at a time; a promise continuation (the code   *)
(* after an await) runs as a microtask right after the task that settled   *)
(* the promise, before any other task.  `microtask` holds the acquisition  *)
(* whose continuation is due; every task is disabled until it has run.     *)
(*                                                                         *)
(* Pointer arithmetic is exact (rationals as integer cross-products); the  *)
(* program computes in IEEE doubles.                                       *)
(***************************************************************************)
EXTENDS Integers, Sequences, FiniteSets, TLC

\* ---------------------------------------------------------------- bounds
\* acquisitions (file or URL loads) started in one run
MaxAcq == 2

\* ------------------------------------------------------- program constants
gridWidth == 900
gridHeight == 1200
cellWidth == 300
cellHeight == 400
NumCells == 9
Cols == 3

\* `null` for pendingCellIndex; no acquisition / no bitmap are numbered 0
Null == -1
NoAcq == 0
Cells == 0 .. (NumCells - 1)
FileName == "3x3-grid.png"
TaintNotice == "Cannot download: Images marked with '!' are protected"
GenericNotice == "Cannot download: One or more images may be protected"

VARIABLES
    images,            \* this.images: cell -> bitmap or NoBitmap
    taintedIndices,    \* this.taintedIndices
    pendingCellIndex,  \* this.pendingCellIndex
    pickerOpen,        \* the file picker opened by fileInput.click() is showing
    loads,             \* the acquisitions started so far, in order of start
    microtask,         \* acquisition whose await continuation is due, or NoAcq
    surface,           \* what the canvas shows since the last draw()
    originClean,       \* the canvas bitmap's origin-clean flag
    \* what the most recent export request (downloadImage) did:
    downloads,         \*   the files it offered for download (link.click())
    alerts,            \*   the notices it showed with alert()
    toDataURLCalls,    \*   the number of times it called canvas.toDataURL()
    located,           \* SpecLocate only: a call of getGridPosition, its
                       \* arguments and its result
    cover              \* SpecCover only: a call of drawImageProp, its
                       \* arguments and the drawImage call it made

vars == << images, taintedIndices, pendingCellIndex, pickerOpen, loads, microtask,
           surface, originClean, downloads, alerts, toDataURLCalls, located, cover >>

\* ----------------------------------------------------------------- strings
\* A string is a sequence of characters, so that startsWith is computed.
StartsWith(s, p) == Len(s) >= Len(p) /\ SubSeq(s, 1, Len(p)) = p

HttpPrefix == << "h", "t", "t", "p" >>
DataImagePrefix == << "d", "a", "t", "a", ":", "i", "m", "a", "g", "e" >>
DataPrefix == << "d", "a", "t", "a", ":" >>
Empty == << >>

\* ------------------------------------------------------------ grid addressing
\* The DOM geometry the handlers read: the canvas's pixel buffer size and its
\* bounding client rect.
Geometry(cw, ch, l, t, w, h) ==
    [ canvasWidth |-> cw, canvasHeight |-> ch, left |-> l, top |-> t, width |-> w, height |-> h ]

BucketUnscaled(c, origin, buffer, shown, cell) == (c - origin) \div cell

\* floor(((c - origin) * buffer / shown) / cell)
Bucket(c, origin, buffer, shown, cell) == ((c - origin) * buffer) \div (shown * cell)

getGridPosition(clientX, clientY, g) ==
    LET col == Bucket(clientX, g.left, g.canvasWidth, g.width, cellWidth)
        row == Bucket(clientY, g.top, g.canvasHeight, g.height, cellHeight)
    IN  [ col |-> col, row |-> row, index |-> row * Cols + col ]

NoPosition == [ col |-> 0, row |-> 0, index |-> 0 ]
NoCall == [ clientX |-> 0, clientY |-> 0, g |-> Geometry(1, 1, 0, 0, 1, 1),
            returned |-> FALSE, pos |-> NoPosition ]

\* ------------------------------------------------------------------ bitmaps
\* A decoded image: the acquisition that loaded it and the stage that did
\* (0: local file, 1: direct with CORS, 2: proxy with CORS, 3: direct, no CORS).
NoBitmap == [ acq |-> NoAcq, stage |-> 0 ]
Bitmap(a, s) == [ acq |-> a, stage |-> s ]

\* An image fetched without crossOrigin from another origin is not origin-clean;
\* a data: URL is always same-origin, the http URLs dropped here are other sites.
IsCrossOrigin(url) == ~StartsWith(url, DataPrefix)

IsOriginClean(b, ls) == ~(b.stage = 3 /\ IsCrossOrigin(ls[b.acq].src))

\* ---------------------------------------------------------------- compositor
\* draw(): the full repaint, as the content of every cell and the placeholder.
draw(imgs, taint) ==
    [ cells |-> [ i \in Cells |->
                    [ img |-> imgs[i], badge |-> imgs[i] # NoBitmap /\ i \in taint ] ],
      placeholder |-> \A i \in Cells : imgs[i] = NoBitmap ]

\* drawImage of a bitmap that is not origin-clean clears the canvas's
\* origin-clean flag; nothing in the program resets it.
drawOriginClean(clean, imgs, ls) ==
    clean /\ \A i \in Cells : imgs[i] # NoBitmap => IsOriginClean(imgs[i], ls)

\* ---------------------------------------------------------------- cover fit
\* Exact rationals n/d in lowest terms, d > 0 (the program computes in doubles).
RECURSIVE GCD(_, _)
GCD(a, b) == IF b = 0 THEN a ELSE GCD(b, a % b)

Abs(n) == IF n < 0 THEN -n ELSE n

Q(n, d) ==
    LET g == GCD(Abs(n), Abs(d))
        s == IF d < 0 THEN -1 ELSE 1
    IN  [ n |-> s * (n \div g), d |-> s * (d \div g) ]

QInt(k) == [ n |-> k, d |-> 1 ]
QMul(a, b) == LET p == Q(a.n, b.d) q == Q(b.n, a.d) IN Q(p.n * q.n, p.d * q.d)
QDiv(a, b) == QMul(a, Q(b.d, b.n))
QSub(a, b) == Q(a.n * b.d - b.n * a.d, a.d * b.d)
QAdd(a, b) == Q(a.n * b.d + b.n * a.d, a.d * b.d)
QLt(a, b) == a.n * b.d < b.n * a.d
QLe(a, b) == a.n * b.d <= b.n * a.d
QMin(a, b) == IF QLt(b, a) THEN b ELSE a

\* Math.abs(ar - 1) < 1e-14: of a rational whose denominator is below 10^14
\* this is true only of 1 itself
NearOne(ar) == ar.n = ar.d

Clamp01(o) == IF QLt(o, QInt(0)) THEN QInt(0) ELSE IF QLt(QInt(1), o) THEN QInt(1) ELSE o

NoCover == [ iw |-> 1, ih |-> 1, x |-> 0, y |-> 0, w |-> 1, h |-> 1, drawn |-> FALSE,
             sx |-> QInt(0), sy |-> QInt(0), sw |-> QInt(0), sh |-> QInt(0),
             dx |-> 0, dy |-> 0, dw |-> 0, dh |-> 0 ]

\* the arguments of the ctx.drawImage call (line 347) for an iw x ih image
drawImagePropCall(iw, ih, x, y, w, h, fillHeightGap) ==
    LET offsetX == Clamp01(Q(1, 2))
        offsetY == Clamp01(Q(1, 2))
        r   == QMin(Q(w, iw), Q(h, ih))
        nw  == QMul(QInt(iw), r)
        nh  == QMul(QInt(ih), r)
        ar1 == IF QLt(nw, QInt(w)) THEN QDiv(QInt(w), nw) ELSE QInt(1)
        ar  == IF fillHeightGap /\ NearOne(ar1) /\ QLt(nh, QInt(h))
               THEN QDiv(QInt(h), nh) ELSE ar1
        nw2 == QMul(nw, ar)
        nh2 == QMul(nh, ar)
        cw  == QDiv(QInt(iw), QDiv(nw2, QInt(w)))
        ch  == QDiv(QInt(ih), QDiv(nh2, QInt(h)))
        cx  == QMul(QSub(QInt(iw), cw), offsetX)
        cy  == QMul(QSub(QInt(ih), ch), offsetY)
    IN  [ sx |-> IF QLt(cx, QInt(0)) THEN QInt(0) ELSE cx,
          sy |-> IF QLt(cy, QInt(0)) THEN QInt(0) ELSE cy,
          sw |-> IF QLt(QInt(iw), cw) THEN QInt(iw) ELSE cw,
          sh |-> IF QLt(QInt(ih), ch) THEN QInt(ih) ELSE ch,
          dx |-> x, dy |-> y, dw |-> w, dh |-> h ]

drawImagePropWidthOnly(iw, ih, x, y, w, h) == drawImagePropCall(iw, ih, x, y, w, h, FALSE)

\* drawImageProp (lines 299-348)
drawImageProp(iw, ih, x, y, w, h) == drawImagePropCall(iw, ih, x, y, w, h, TRUE)

\* ------------------------------------------------------------ drop payload
\* e.dataTransfer: the dropped files (by MIME type), the text/html payload (as
\* the src of each img element of the parsed fragment, in document order; an
\* img without src has src ""), the text/uri-list and the text/plain payloads.
Payload(hasDt, files, htmlPresent, imgs, uri, text) ==
    [ hasDt |-> hasDt, files |-> files,
      html |-> [ present |-> htmlPresent, imgs |-> imgs ], uri |-> uri, text |-> text ]

NoPayload == Payload(FALSE, << >>, FALSE, << >>, Empty, Empty)

ImagePrefix == << "i", "m", "a", "g", "e", "/" >>

resolveSrcUriFirst(dt) ==
    LET fromUri  == dt.uri
        fromHtml == IF fromUri = Empty /\ dt.html.present /\ Len(dt.html.imgs) > 0
                    THEN dt.html.imgs[1] ELSE fromUri
    IN  IF /\ fromHtml = Empty
           /\ dt.text # Empty
           /\ (StartsWith(dt.text, HttpPrefix) \/ StartsWith(dt.text, DataImagePrefix))
        THEN dt.text
        ELSE fromHtml

\* the source URL handleDrop resolves when no file was dropped ("" for none)
resolveSrc(dt) ==
    LET fromHtml == IF dt.html.present /\ Len(dt.html.imgs) > 0
                    THEN dt.html.imgs[1] ELSE Empty
        fromUri  == IF fromHtml = Empty /\ dt.uri # Empty THEN dt.uri ELSE fromHtml
    IN  IF /\ fromUri = Empty
           /\ dt.text # Empty
           /\ (StartsWith(dt.text, HttpPrefix) \/ StartsWith(dt.text, DataImagePrefix))
        THEN dt.text
        ELSE fromUri

\* ------------------------------------------------------------- acquisitions
\* kind "file": pc reading -> decoding -> loaded -> done, or decoding -> rejected
\* kind "url":  pc loading (stage 1, 2, 3) -> loaded -> done, or loading -> failed
Acq(kind, via, index, src, stage, pc) ==
    [ kind |-> kind, via |-> via, index |-> index, src |-> src, stage |-> stage, pc |-> pc ]

AcqIds == 1 .. Len(loads)

inRange(index) == index >= 0 /\ index <= 8

Idle == microtask = NoAcq

Init ==
    /\ images = [ i \in Cells |-> NoBitmap ]
    /\ taintedIndices = {}
    /\ pendingCellIndex = Null
    /\ pickerOpen = FALSE
    /\ loads = << >>
    /\ microtask = NoAcq
    /\ surface = draw([ i \in Cells |-> NoBitmap ], {})
    /\ originClean = TRUE
    /\ downloads = << >>
    /\ alerts = << >>
    /\ toDataURLCalls = 0
    /\ located = NoCall
    /\ cover = NoCover

\* ------------------------------------------------------------ inputs (Spec)
\* the canvas shown at half its buffer size, offset in the page
Geometries == { Geometry(gridWidth, gridHeight, 10, 20, 450, 600) }
\* cell 0; cell 4; right of the canvas (col 4, row 0: index 4); left of it (col -1)
Points == { << 100, 100 >>, << 200, 300 >>, << 650, 100 >>, << 5, 100 >> }

UrlA == << "h", "t", "t", "p", ":", "A" >>
UrlB == << "h", "t", "t", "p", ":", "B" >>
Junk == << "h", "i" >>
ImagePng == << "i", "m", "a", "g", "e", "/", "p", "n", "g" >>
TextPlain == << "t", "e", "x", "t", "/", "p", "l", "a", "i", "n" >>

Payloads == { Payload(TRUE, << ImagePng >>, FALSE, << >>, Empty, Empty),
              Payload(TRUE, << TextPlain >>, FALSE, << >>, Empty, Empty),
              Payload(TRUE, << >>, TRUE, << UrlA >>, UrlB, UrlB),
              Payload(TRUE, << >>, FALSE, << >>, Empty, Junk),
              NoPayload }

\* ----------------------------------------------------------------- handlers
\* handleClick: a click on the canvas
handleClick(x, y, g) ==
    LET pos == getGridPosition(x, y, g) IN
    /\ Idle /\ ~pickerOpen
    /\ IF inRange(pos.index)
       THEN /\ pendingCellIndex' = pos.index
            /\ pickerOpen' = TRUE
       ELSE UNCHANGED << pendingCellIndex, pickerOpen >>
    /\ UNCHANGED << images, taintedIndices, loads, microtask, surface, originClean,
                    downloads, alerts, toDataURLCalls, located, cover >>

\* the user dismisses the file picker: no change event is dispatched
fileInputCancel ==
    /\ Idle /\ pickerOpen
    /\ pickerOpen' = FALSE
    /\ UNCHANGED << images, taintedIndices, pendingCellIndex, loads, microtask, surface,
                    originClean, downloads, alerts, toDataURLCalls, located, cover >>

\* handleFileSelect up to its await: the change event of the file input
handleFileSelect(hasFile) ==
    /\ Idle /\ pickerOpen
    /\ pickerOpen' = FALSE
    /\ IF pendingCellIndex = Null
       THEN UNCHANGED << pendingCellIndex, loads >>
       ELSE IF hasFile
            THEN /\ Len(loads) < MaxAcq
                 /\ loads' = Append(loads,
                        Acq("file", "select", pendingCellIndex, Empty, 0, "reading"))
                 /\ UNCHANGED pendingCellIndex
            ELSE /\ pendingCellIndex' = Null
                 /\ UNCHANGED loads
    /\ UNCHANGED << images, taintedIndices, microtask, surface, originClean,
                    downloads, alerts, toDataURLCalls, located, cover >>

\* handleDrop up to its await: a drop on the canvas
handleDrop(x, y, g, dt) ==
    LET pos == getGridPosition(x, y, g)
        src == resolveSrc(dt)
    IN
    /\ Idle /\ ~pickerOpen
    /\ IF ~dt.hasDt \/ ~inRange(pos.index)
       THEN UNCHANGED loads
       ELSE IF Len(dt.files) > 0
            THEN IF StartsWith(dt.files[1], ImagePrefix)
                 THEN /\ Len(loads) < MaxAcq
                      /\ loads' = Append(loads,
                             Acq("file", "drop", pos.index, Empty, 0, "reading"))
                 ELSE UNCHANGED loads
            ELSE IF src # Empty
                 THEN /\ Len(loads) < MaxAcq
                      /\ loads' = Append(loads,
                             Acq("url", "drop", pos.index, src, 1, "loading"))
                 ELSE UNCHANGED loads
    /\ UNCHANGED << images, taintedIndices, pendingCellIndex, pickerOpen, microtask,
                    surface, originClean, downloads, alerts, toDataURLCalls, located, cover >>

\* --------------------------------------------------------- loadImageFromFile
\* reader.onload: the file is read, the image starts decoding the data URL
readerOnload(a) ==
    /\ Idle /\ a \in AcqIds
    /\ loads[a].kind = "file" /\ loads[a].pc = "reading"
    /\ loads' = [ loads EXCEPT ![a].pc = "decoding" ]
    /\ UNCHANGED << images, taintedIndices, pendingCellIndex, pickerOpen, microtask,
                    surface, originClean, downloads, alerts, toDataURLCalls, located, cover >>

fileTaintKept(taint, index) == taint

\* line 161: local files don't taint the canvas
fileTaint(taint, index) == taint \ { index }

\* img.onload of loadImageFromFile: setImage, untaint, draw, resolve
fileImgOnload(a) ==
    /\ Idle /\ a \in AcqIds
    /\ loads[a].kind = "file" /\ loads[a].pc = "decoding"
    /\ images' = [ images EXCEPT ![loads[a].index] = Bitmap(a, 0) ]
    /\ taintedIndices' = fileTaint(taintedIndices, loads[a].index)
    /\ surface' = draw(images', taintedIndices')
    /\ originClean' = drawOriginClean(originClean, images', loads)
    /\ loads' = [ loads EXCEPT ![a].pc = "loaded" ]
    /\ microtask' = a
    /\ UNCHANGED << pendingCellIndex, pickerOpen, downloads, alerts, toDataURLCalls, located, cover >>

\* img.onerror of loadImageFromFile: the promise rejects, and so does the
\* handler awaiting it (nothing catches it, nothing after the await runs)
fileImgOnerror(a) ==
    /\ Idle /\ a \in AcqIds
    /\ loads[a].kind = "file" /\ loads[a].pc = "decoding"
    /\ loads' = [ loads EXCEPT ![a].pc = "rejected" ]
    /\ UNCHANGED << images, taintedIndices, pendingCellIndex, pickerOpen, microtask,
                    surface, originClean, downloads, alerts, toDataURLCalls, located, cover >>

\* the handler resumes after its await: handleFileSelect clears the pending
\* cell (line 87), handleDrop has nothing left to do
fileResume(a) ==
    /\ microtask = a /\ a \in AcqIds
    /\ loads[a].kind = "file" /\ loads[a].pc = "loaded"
    /\ pendingCellIndex' = IF loads[a].via = "select" THEN Null ELSE pendingCellIndex
    /\ loads' = [ loads EXCEPT ![a].pc = "done" ]
    /\ microtask' = NoAcq
    /\ UNCHANGED << images, taintedIndices, pickerOpen, surface, originClean,
                    downloads, alerts, toDataURLCalls, located, cover >>

\* ---------------------------------------------------------- loadImageFromUrl
loadImageOnloadKeepsNewer(a) ==
    /\ Idle /\ a \in AcqIds
    /\ loads[a].kind = "url" /\ loads[a].pc = "loading"
    /\ images' = IF images[loads[a].index].acq > a
                 THEN images
                 ELSE [ images EXCEPT ![loads[a].index] = Bitmap(a, loads[a].stage) ]
    /\ loads' = [ loads EXCEPT ![a].pc = "loaded" ]
    /\ microtask' = a
    /\ UNCHANGED << taintedIndices, pendingCellIndex, pickerOpen, surface, originClean,
                    downloads, alerts, toDataURLCalls, located, cover >>

\* img.onload of loadImage (lines 213-216): the slot is written, then resolve
loadImageOnload(a) ==
    /\ Idle /\ a \in AcqIds
    /\ loads[a].kind = "url" /\ loads[a].pc = "loading"
    /\ images' = [ images EXCEPT ![loads[a].index] = Bitmap(a, loads[a].stage) ]
    /\ loads' = [ loads EXCEPT ![a].pc = "loaded" ]
    /\ microtask' = a
    /\ UNCHANGED << taintedIndices, pendingCellIndex, pickerOpen, surface, originClean,
                    downloads, alerts, toDataURLCalls, located, cover >>

urlTaintNeverCleared(taint, index, stage) == taint \cup (IF stage = 3 THEN { index } ELSE {})

urlTaintClearsAll(taint, index, stage) ==
    IF stage = 3 THEN taint \cup { index } ELSE {}

\* lines 176, 187, 196: the taint mark after the stage that loaded the image
urlTaint(taint, index, stage) ==
    IF stage = 3 THEN taint \cup { index } ELSE taint \ { index }

\* loadImageFromUrl resumes after a successful await: stages 1 and 2 untaint
\* and return (lines 176-177, 187-188); stage 3 taints and falls through to
\* the draw() of line 202
urlResume(a) ==
    /\ microtask = a /\ a \in AcqIds
    /\ loads[a].kind = "url" /\ loads[a].pc = "loaded"
    /\ taintedIndices' = urlTaint(taintedIndices, loads[a].index, loads[a].stage)
    /\ IF loads[a].stage = 3
       THEN /\ surface' = draw(images, taintedIndices')
            /\ originClean' = drawOriginClean(originClean, images, loads)
       ELSE UNCHANGED << surface, originClean >>
    /\ loads' = [ loads EXCEPT ![a].pc = "done" ]
    /\ microtask' = NoAcq
    /\ UNCHANGED << images, pendingCellIndex, pickerOpen, downloads, alerts, toDataURLCalls, located, cover >>

loadImageOnerrorTaints(a) ==
    /\ Idle /\ a \in AcqIds
    /\ loads[a].kind = "url" /\ loads[a].pc = "loading"
    /\ IF loads[a].stage < 3
       THEN /\ loads' = [ loads EXCEPT ![a].stage = @ + 1 ]
            /\ UNCHANGED << taintedIndices, surface, originClean >>
       ELSE /\ loads' = [ loads EXCEPT ![a].pc = "failed" ]
            /\ taintedIndices' = taintedIndices \cup { loads[a].index }
            /\ surface' = draw(images, taintedIndices')
            /\ originClean' = drawOriginClean(originClean, images, loads)
    /\ UNCHANGED << images, pendingCellIndex, pickerOpen, microtask,
                    downloads, alerts, toDataURLCalls, located, cover >>

loadImageOnerrorSkipsProxy(a) ==
    /\ Idle /\ a \in AcqIds
    /\ loads[a].kind = "url" /\ loads[a].pc = "loading"
    /\ IF loads[a].stage < 3
       THEN /\ loads' = [ loads EXCEPT ![a].stage = 3 ]
            /\ UNCHANGED << surface, originClean >>
       ELSE /\ loads' = [ loads EXCEPT ![a].pc = "failed" ]
            /\ surface' = draw(images, taintedIndices)
            /\ originClean' = drawOriginClean(originClean, images, loads)
    /\ UNCHANGED << images, taintedIndices, pendingCellIndex, pickerOpen, microtask,
                    downloads, alerts, toDataURLCalls, located, cover >>

\* img.onerror of loadImage and the catch that follows it: stages 1 and 2
\* start the next stage's load; stage 3 logs, draws and gives up
loadImageOnerror(a) ==
    /\ Idle /\ a \in AcqIds
    /\ loads[a].kind = "url" /\ loads[a].pc = "loading"
    /\ IF loads[a].stage < 3
       THEN /\ loads' = [ loads EXCEPT ![a].stage = @ + 1 ]
            /\ UNCHANGED << surface, originClean >>
       ELSE /\ loads' = [ loads EXCEPT ![a].pc = "failed" ]
            /\ surface' = draw(images, taintedIndices)
            /\ originClean' = drawOriginClean(originClean, images, loads)
    /\ UNCHANGED << images, taintedIndices, pendingCellIndex, pickerOpen, microtask,
                    downloads, alerts, toDataURLCalls, located, cover >>

\* ------------------------------------------------------------------- export
downloadImageUnchecked ==
    /\ Idle /\ ~pickerOpen
    /\ toDataURLCalls' = 1
    /\ IF originClean
       THEN downloads' = << FileName >> /\ alerts' = << >>
       ELSE downloads' = << >> /\ alerts' = << GenericNotice >>
    /\ UNCHANGED << images, taintedIndices, pendingCellIndex, pickerOpen, loads,
                    microtask, surface, originClean, located, cover >>

downloadImageClicksFirst ==
    /\ Idle /\ ~pickerOpen
    /\ IF taintedIndices # {}
       THEN /\ alerts' = << TaintNotice >>
            /\ downloads' = << >>
            /\ toDataURLCalls' = 0
       ELSE /\ toDataURLCalls' = 1
            /\ downloads' = << FileName >>
            /\ alerts' = IF originClean THEN << >> ELSE << GenericNotice >>
    /\ UNCHANGED << images, taintedIndices, pendingCellIndex, pickerOpen, loads,
                    microtask, surface, originClean, located, cover >>

\* downloadImage: a click on the download button.  canvas.toDataURL throws a
\* SecurityError when the canvas is not origin-clean.
downloadImage ==
    /\ Idle /\ ~pickerOpen
    /\ IF taintedIndices # {}
       THEN /\ alerts' = << TaintNotice >>
            /\ downloads' = << >>
            /\ toDataURLCalls' = 0
       ELSE /\ toDataURLCalls' = 1
            /\ IF originClean
               THEN downloads' = << FileName >> /\ alerts' = << >>
               ELSE downloads' = << >> /\ alerts' = << GenericNotice >>
    /\ UNCHANGED << images, taintedIndices, pendingCellIndex, pickerOpen, loads,
                    microtask, surface, originClean, located, cover >>

\* ------------------------------------------------------------ specification
Next ==
    \/ \E p \in Points, g \in Geometries : handleClick(p[1], p[2], g)
    \/ fileInputCancel
    \/ \E hasFile \in BOOLEAN : handleFileSelect(hasFile)
    \/ \E p \in Points, g \in Geometries, dt \in Payloads : handleDrop(p[1], p[2], g, dt)
    \/ \E a \in AcqIds : readerOnload(a)
    \/ \E a \in AcqIds : fileImgOnload(a)
    \/ \E a \in AcqIds : fileImgOnerror(a)
    \/ \E a \in AcqIds : fileResume(a)
    \/ \E a \in AcqIds : loadImageOnload(a)
    \/ \E a \in AcqIds : urlResume(a)
    \/ \E a \in AcqIds : loadImageOnerror(a)
    \/ downloadImage

Spec == Init /\ [][Next]_vars

\* ------------------------------------------------------- loads that resolve
\* Every load that was started fires its load or its error event, and a
\* handler awaiting a load resumes once it has fired.
FairSpec ==
    /\ Spec
    /\ \A a \in 1..MaxAcq :
          /\ WF_vars(loadImageOnload(a) \/ loadImageOnerror(a))
          /\ WF_vars(urlResume(a))
          /\ WF_vars(fileResume(a))

\* ------------------------------------------------- getGridPosition, by itself
\* SpecLocate calls getGridPosition once on arguments drawn from these sets:
\* the canvas at its buffer size, at 1/2 and 1/3 of it, at twice it, and at a
\* size that divides nothing.
LocateGeometries == { Geometry(gridWidth, gridHeight, 0, 0, 900, 1200),
                      Geometry(gridWidth, gridHeight, 10, 20, 450, 600),
                      Geometry(gridWidth, gridHeight, 0, 7, 300, 400),
                      Geometry(gridWidth, gridHeight, 3, 0, 1800, 2400),
                      Geometry(gridWidth, gridHeight, 1, 2, 700, 500) }
LocateXs == { -1, 0, 1, 99, 100, 101, 149, 150, 233, 234, 299, 300, 301, 449, 450,
              599, 600, 899, 900, 1199, 1200, 1803 }
LocateYs == { -1, 0, 7, 133, 134, 140, 199, 200, 207, 399, 400, 406, 407, 420, 619, 620,
              799, 800, 1199, 1200, 2399, 2400 }

InitLocate ==
    /\ images = [ i \in Cells |-> NoBitmap ]
    /\ taintedIndices = {}
    /\ pendingCellIndex = Null
    /\ pickerOpen = FALSE
    /\ loads = << >>
    /\ microtask = NoAcq
    /\ surface = draw([ i \in Cells |-> NoBitmap ], {})
    /\ originClean = TRUE
    /\ downloads = << >>
    /\ alerts = << >>
    /\ toDataURLCalls = 0
    /\ \E x \in LocateXs, y \in LocateYs, g \in LocateGeometries :
          located = [ clientX |-> x, clientY |-> y, g |-> g,
                      returned |-> FALSE, pos |-> NoPosition ]
    /\ cover = NoCover

locate ==
    /\ ~located.returned
    /\ located' = [ located EXCEPT
                      !.returned = TRUE,
                      !.pos = getGridPosition(located.clientX, located.clientY, located.g) ]
    /\ UNCHANGED << images, taintedIndices, pendingCellIndex, pickerOpen, loads, microtask,
                    surface, originClean, downloads, alerts, toDataURLCalls, cover >>

SpecLocate == InitLocate /\ [][locate]_vars

\* ------------------------------------------------------ handleDrop, by itself
\* SpecDrop drops payloads drawn from these sets: no HTML, HTML without an img,
\* with one img, with a first img that has no src, with two imgs; with and
\* without a URI list; with no text, an http URL, a data:image URL, a data: URL
\* of another type and plain words; and an image file beside a full payload.
UrlC == << "h", "t", "t", "p", ":", "C" >>
DataUrl == << "d", "a", "t", "a", ":", "i", "m", "a", "g", "e", "/", "x" >>
DataText == << "d", "a", "t", "a", ":", "t", "e", "x", "t" >>

DropHtmls == { << FALSE, << >> >>, << TRUE, << >> >>, << TRUE, << UrlA >> >>,
               << TRUE, << Empty, UrlA >> >>, << TRUE, << UrlA, UrlB >> >> }

DropPayloads ==
    { Payload(TRUE, << >>, h[1], h[2], u, t) :
        h \in DropHtmls, u \in { Empty, UrlB }, t \in { Empty, UrlC, DataUrl, DataText, Junk } }
    \cup { Payload(TRUE, << ImagePng >>, TRUE, << UrlA >>, UrlB, UrlC) }

NextDrop ==
    \E p \in Points, g \in Geometries, dt \in DropPayloads : handleDrop(p[1], p[2], g, dt)

SpecDrop == Init /\ [][NextDrop]_vars

\* --------------------------------------------------- drawImageProp, by itself
\* SpecCover calls drawImageProp once: an image of a size drawn from these sets
\* (wider than, taller than and of the shape of the cell; smaller and larger)
\* into a grid cell, or into a cell of another shape.
CoverWidths == { 1, 2, 3, 7, 50, 100, 150, 299, 300, 301, 400, 600, 1000 }
CoverHeights == { 1, 2, 4, 9, 50, 100, 200, 399, 400, 401, 533, 800 }
CoverCells == { << 0, 0, cellWidth, cellHeight >>,
                << cellWidth, cellHeight, cellWidth, cellHeight >>,
                << 2 * cellWidth, 2 * cellHeight, cellWidth, cellHeight >>,
                << 0, 0, 400, 300 >>, << 10, 20, 200, 200 >> }

InitCover ==
    /\ images = [ i \in Cells |-> NoBitmap ]
    /\ taintedIndices = {}
    /\ pendingCellIndex = Null
    /\ pickerOpen = FALSE
    /\ loads = << >>
    /\ microtask = NoAcq
    /\ surface = draw([ i \in Cells |-> NoBitmap ], {})
    /\ originClean = TRUE
    /\ downloads = << >>
    /\ alerts = << >>
    /\ toDataURLCalls = 0
    /\ located = NoCall
    /\ \E iw \in CoverWidths, ih \in CoverHeights, c \in CoverCells :
          cover = [ NoCover EXCEPT !.iw = iw, !.ih = ih,
                                   !.x = c[1], !.y = c[2], !.w = c[3], !.h = c[4] ]

coverCell ==
    /\ ~cover.drawn
    /\ LET call == drawImageProp(cover.iw, cover.ih, cover.x, cover.y, cover.w, cover.h)
       IN  cover' = [ cover EXCEPT !.drawn = TRUE,
                        !.sx = call.sx, !.sy = call.sy, !.sw = call.sw, !.sh = call.sh,
                        !.dx = call.dx, !.dy = call.dy, !.dw = call.dw, !.dh = call.dh ]
    /\ UNCHANGED << images, taintedIndices, pendingCellIndex, pickerOpen, loads, microtask,
                    surface, originClean, downloads, alerts, toDataURLCalls, located >>

SpecCover == InitCover /\ [][coverCell]_vars

\* ====================================================================== claims
Populated == { i \in Cells : images[i] # NoBitmap }

\* acquisition a takes the step that ends it successfully
Completes(a) == a \in AcqIds /\ loads[a].pc # "done" /\ loads'[a].pc = "done"

\* acquisition a takes a step that is not a successful load: the file is read,
\* a stage fails and the next starts, the last stage fails, the decode fails
StepsWithoutLoad(a) ==
    /\ a \in AcqIds
    /\ loads'[a] # loads[a]
    /\ loads'[a].pc \notin { "loaded", "done" }

\* C1: an export requested while TaintSet is non-empty triggers no download,
\* does not call the serializer, and shows the taint notice.
C1_TaintedExportBlocked ==
    [][ (downloadImage /\ taintedIndices # {})
          => /\ downloads' = << >>
             /\ toDataURLCalls' = 0
             /\ alerts' = << TaintNotice >> ]_vars

\* an export was refused in a state whose TaintSet is non-empty
C1_Witness ==
    /\ taintedIndices # {}
    /\ alerts = << TaintNotice >> /\ downloads = << >> /\ toDataURLCalls = 0
    /\ Idle /\ ~pickerOpen

\* C2 (as claimed): an export requested while TaintSet is empty and some slot is
\* populated triggers exactly one download, of 3x3-grid.png.
C2_CleanExportDownloads ==
    [][ (downloadImage /\ taintedIndices = {} /\ Populated # {})
          => downloads' = << FileName >> ]_vars

\* C3: every index in TaintSet refers to a populated slot, in every state,
\* also between an image's onload and the continuation that follows it.
C3_TaintedArePopulated == taintedIndices \subseteq Populated

\* a stage-1 or stage-2 image has just been written over a tainted bitmap and
\* the continuation that clears the mark is still due
C3_Witness ==
    /\ microtask # NoAcq
    /\ loads[microtask].kind = "url" /\ loads[microtask].stage \in { 1, 2 }
    /\ loads[microtask].index \in taintedIndices
    /\ images[loads[microtask].index] = Bitmap(microtask, loads[microtask].stage)

\* C4: when a URL acquisition on cell i completes, i is not in TaintSet if
\* stage 1 or 2 loaded the image, and i is in TaintSet if stage 3 did.
C4_StageDecidesTaint ==
    [][ \A a \in AcqIds :
          (Completes(a) /\ loads[a].kind = "url")
            => /\ loads[a].stage \in { 1, 2 } => loads[a].index \notin taintedIndices'
               /\ loads[a].stage = 3 => loads[a].index \in taintedIndices' ]_vars

\* a stage-1 or stage-2 load completed on a cell that a stage-3 load had
\* tainted before, and a stage-3 load completed on another
C4_Witness ==
    \E a, b \in AcqIds :
        /\ loads[a].kind = "url" /\ loads[a].pc = "done" /\ loads[a].stage = 3
        /\ loads[b].kind = "url" /\ loads[b].pc = "done" /\ loads[b].stage \in { 1, 2 }
        /\ loads[a].index = loads[b].index
        /\ images[loads[b].index] = Bitmap(b, loads[b].stage)
        /\ loads[b].index \notin taintedIndices

\* C5: a local file that decodes leaves its bitmap in slot i and i out of
\* TaintSet, at the decode and when the acquisition completes.
C5_FileLoadUntaints ==
    [][ \A a \in AcqIds :
          ( /\ loads[a].kind = "file"
            /\ \/ loads[a].pc = "decoding" /\ loads'[a].pc = "loaded"
               \/ Completes(a) )
            => /\ images'[loads[a].index] = Bitmap(a, 0)
               /\ loads[a].index \notin taintedIndices' ]_vars

\* a file load completed on a cell that a stage-3 load had tainted before
C5_Witness ==
    \E a, b \in AcqIds :
        /\ loads[a].kind = "url" /\ loads[a].pc = "done" /\ loads[a].stage = 3
        /\ loads[b].kind = "file" /\ loads[b].pc = "done"
        /\ loads[a].index = loads[b].index
        /\ images[loads[b].index] = Bitmap(b, 0)
        /\ loads[b].index \notin taintedIndices

\* C6: no step of an acquisition other than a successful load changes the
\* bitmap of its cell or its taint mark, and none shows a notice.
C6_FailureLeavesCell ==
    [][ \A a \in AcqIds :
          StepsWithoutLoad(a)
            => /\ images'[loads[a].index] = images[loads[a].index]
               /\ (loads[a].index \in taintedIndices') = (loads[a].index \in taintedIndices)
               /\ alerts' = alerts ]_vars

\* all three stages failed on a cell that holds a tainted bitmap, and it
\* still holds it
C6_Witness ==
    \E a, b \in AcqIds :
        /\ loads[b].kind = "url" /\ loads[b].pc = "failed"
        /\ loads[a].index = loads[b].index
        /\ images[loads[b].index] = Bitmap(a, 3)
        /\ loads[b].index \in taintedIndices
        /\ alerts = << >>

\* the pointer, in buffer pixels times the displayed size (no division)
ScaledX(c) == (c.clientX - c.g.left) * c.g.canvasWidth
ScaledY(c) == (c.clientY - c.g.top) * c.g.canvasHeight

InsideSurface(c) ==
    /\ 0 <= ScaledX(c) /\ ScaledX(c) < gridWidth * c.g.width
    /\ 0 <= ScaledY(c) /\ ScaledY(c) < gridHeight * c.g.height

\* C7: for a pointer inside the surface's pixel bounds, col = floor(x / 300) and
\* row = floor(y / 400) are in [0,2] and index = row*3 + col is in [0,8], x
\* and y being the display coordinates scaled to the buffer; a surface shown
\* at 1/k of its buffer size has its display coordinates multiplied by k.
C7_LocateInsideSurface ==
    (located.returned /\ InsideSurface(located)) =>
        LET c == located
            pos == located.pos
        IN  /\ pos.col \in 0 .. 2 /\ pos.row \in 0 .. 2
            /\ pos.index = pos.row * 3 + pos.col
            /\ pos.index \in 0 .. 8
            /\ pos.col * 300 * c.g.width <= ScaledX(c)
            /\ ScaledX(c) < (pos.col + 1) * 300 * c.g.width
            /\ pos.row * 400 * c.g.height <= ScaledY(c)
            /\ ScaledY(c) < (pos.row + 1) * 400 * c.g.height
            /\ (c.g.canvasWidth % c.g.width = 0) =>
                  pos.col = ((c.clientX - c.g.left) * (c.g.canvasWidth \div c.g.width)) \div 300
            /\ (c.g.canvasHeight % c.g.height = 0) =>
                  pos.row = ((c.clientY - c.g.top) * (c.g.canvasHeight \div c.g.height)) \div 400

\* the last cell, located on a surface shown at half its buffer size
C7_Witness ==
    /\ located.returned /\ InsideSurface(located)
    /\ located.g.canvasWidth = 2 * located.g.width
    /\ located.clientX - located.g.left >= 300
    /\ located.pos.index = 8

\* C8 (as claimed): a click or drop whose col or row is outside [0,2] gets an
\* index outside [0,8] and is discarded: no pending cell, no file picker, no
\* acquisition.
C8_OutsideIsDiscarded ==
    [][ \A p \in Points, g \in Geometries :
          LET pos == getGridPosition(p[1], p[2], g) IN
          ( /\ pos.col \notin 0 .. 2 \/ pos.row \notin 0 .. 2
            /\ \/ handleClick(p[1], p[2], g)
               \/ \E dt \in Payloads : handleDrop(p[1], p[2], g, dt) )
            => /\ pos.index \notin 0 .. 8
               /\ UNCHANGED << pendingCellIndex, pickerOpen, loads >> ]_vars

\* C9 (as claimed): between tasks, the rendered surface shows the placeholder
\* prompt exactly when all 9 slots are empty.
C9_PlaceholderIffEmpty ==
    Idle => (surface.placeholder <=> Populated = {})

\* C10 (as claimed): when an acquisition that wrote a bitmap completes, the
\* rendered surface shows its slot's current bitmap and taint badge.
C10_CompletedIsRendered ==
    [][ \A a \in AcqIds :
          Completes(a)
            => surface'.cells[loads[a].index] =
                 [ img |-> images'[loads[a].index],
                   badge |-> loads[a].index \in taintedIndices' ] ]_vars

\* C11 (as claimed): when the handling of a file choice ends, by a successful
\* load or by a failed decode, PendingSelection is empty.
C11_PendingClearedAfterRoundTrip ==
    [][ \A a \in AcqIds :
          ( /\ loads[a].via = "select"
            /\ loads[a].pc \notin { "done", "rejected" }
            /\ loads'[a].pc \in { "done", "rejected" } )
            => pendingCellIndex' = Null ]_vars

\* C12 (as claimed): a file chosen in the picker that a click opened is
\* loaded, whatever earlier acquisitions did in the meantime: the choice
\* starts a file acquisition.
C12_LaterChoiceIsLoaded ==
    [][ handleFileSelect(TRUE)
          => /\ Len(loads') = Len(loads) + 1
             /\ loads'[Len(loads')].kind = "file"
             /\ loads'[Len(loads')].index \in Cells ]_vars

\* acquisition a takes the step in which its image loads
Loads(a) ==
    /\ a \in AcqIds
    /\ loads[a].pc \in { "loading", "decoding" }
    /\ loads'[a].pc = "loaded"

\* C13: a load that resolves writes its bitmap into its slot, whatever the
\* slot holds and whichever acquisition started first, and nothing else
\* changes a slot: the slot holds the bitmap whose load resolved last.
C13_LastResolvedWins ==
    [][ /\ \A a \in AcqIds :
             Loads(a) => images'[loads[a].index] = Bitmap(a, loads[a].stage)
        /\ \A i \in Cells :
             images'[i] # images[i]
               => \E a \in AcqIds : Loads(a) /\ loads[a].index = i ]_vars

\* two acquisitions on one cell have completed and the slot holds the bitmap
\* of the one started first: it resolved last
C13_Witness ==
    \E a, b \in AcqIds :
        /\ a < b /\ loads[a].index = loads[b].index
        /\ loads[a].pc = "done" /\ loads[b].pc = "done"
        /\ loads[a].kind = "url" /\ loads[b].kind = "url"
        /\ images[loads[a].index] = Bitmap(a, loads[a].stage)

\* C14: an export with TaintSet empty whose serialization throws triggers no
\* download, shows the generic notice only, and changes nothing else: grid,
\* TaintSet, PendingSelection and the pending loads are as before, so the
\* export can be requested again.
C14_FailedExportIsContained ==
    [][ (downloadImage /\ taintedIndices = {} /\ ~originClean)
          => /\ downloads' = << >>
             /\ alerts' = << GenericNotice >>
             /\ toDataURLCalls' = 1
             /\ UNCHANGED << images, taintedIndices, pendingCellIndex, pickerOpen,
                             loads, microtask, surface, originClean >> ]_vars

\* an export has failed in its serialization and the next one is possible
C14_Witness ==
    /\ taintedIndices = {} /\ ~originClean
    /\ alerts = << GenericNotice >> /\ downloads = << >>
    /\ Idle /\ ~pickerOpen

\* the source the claimed priority gives: the first img's src if it is not
\* empty, else the URI list, else the text if it starts with http or data:image
ClaimedSrc(dt) ==
    IF dt.html.present /\ dt.html.imgs # << >> /\ Head(dt.html.imgs) # Empty
    THEN Head(dt.html.imgs)
    ELSE IF dt.uri # Empty
         THEN dt.uri
         ELSE IF StartsWith(dt.text, HttpPrefix) \/ StartsWith(dt.text, DataImagePrefix)
              THEN dt.text
              ELSE Empty

\* C15: a drop without a file on a cell starts a URL acquisition of the source
\* the priority gives (HTML img src, URI list, URL-like text), and changes
\* nothing when the priority gives none.
C15_DropSourcePriority ==
    [][ \A p \in Points, g \in Geometries, dt \in DropPayloads :
          LET pos == getGridPosition(p[1], p[2], g) IN
          ( /\ handleDrop(p[1], p[2], g, dt)
            /\ dt.hasDt /\ dt.files = << >> /\ pos.index \in Cells )
            => IF ClaimedSrc(dt) # Empty
               THEN loads' = Append(loads,
                        Acq("url", "drop", pos.index, ClaimedSrc(dt), 1, "loading"))
               ELSE UNCHANGED vars ]_vars

\* drops have started an acquisition of an HTML img's src (dropped beside a
\* URI list or alone) and an acquisition of a data:image text
C15_Witness ==
    \E a, b \in AcqIds :
        /\ loads[a].kind = "url" /\ loads[a].src = UrlA
        /\ loads[b].kind = "url" /\ loads[b].src = DataUrl

\* C16: the source rectangle drawImageProp crops lies inside the bitmap, has
\* the aspect ratio of the cell (cw * h = ch * w), and is drawn onto the whole
\* cell; a 100x200 bitmap in a 300x400 cell is cropped within [0,100]x[0,200].
C16_CoverFit ==
    cover.drawn =>
        /\ QLe(QInt(0), cover.sx) /\ QLe(QInt(0), cover.sy)
        /\ QLe(QAdd(cover.sx, cover.sw), QInt(cover.iw))
        /\ QLe(QAdd(cover.sy, cover.sh), QInt(cover.ih))
        /\ QLt(QInt(0), cover.sw) /\ QLt(QInt(0), cover.sh)
        /\ cover.sw.n * cover.h * cover.sh.d = cover.sh.n * cover.w * cover.sw.d
        /\ cover.dx = cover.x /\ cover.dy = cover.y
        /\ cover.dw = cover.w /\ cover.dh = cover.h

\* the 100x200 bitmap has been drawn into a 300x400 cell, cropped in height
C16_Witness ==
    /\ cover.drawn
    /\ cover.iw = 100 /\ cover.ih = 200 /\ cover.w = 300 /\ cover.h = 400
    /\ cover.sw = QInt(100) /\ QLt(cover.sh, QInt(200))

\* C17: within a URL acquisition the stages run in order, one load at a time:
\* a stage starts only by the failure of the stage before it, none starts once
\* a stage has loaded, there are at most three; and when every started load
\* resolves, the acquisition ends (completed or given up).
C17_StagesInOrder ==
    /\ [][ \A a \in AcqIds :
             loads[a].kind = "url" =>
               /\ loads[a].stage \in 1..3 /\ loads'[a].stage \in 1..3
               /\ loads'[a].stage # loads[a].stage
                    => /\ loads'[a].stage = loads[a].stage + 1
                       /\ loads[a].pc = "loading" /\ loads'[a].pc = "loading"
                       /\ images' = images
               /\ loads[a].pc # "loading"
                    => /\ loads'[a].stage = loads[a].stage
                       /\ loads'[a].pc # "loading" ]_vars
    /\ \A a \in 1..MaxAcq :
          (a \in AcqIds /\ loads[a].kind = "url")
             ~> (a \in AcqIds /\ loads[a].pc \in { "done", "failed" })

\* a URL acquisition has completed at its third stage
C17_Witness ==
    \E a \in AcqIds :
       /\ loads[a].kind = "url" /\ loads[a].stage = 3 /\ loads[a].pc = "done"
       /\ images[loads[a].index] = Bitmap(a, 3)

\* C18: a step of an acquisition on cell i changes neither the bitmap nor the
\* taint mark of any other cell.
C18_OtherCellsUntouched ==
    [][ \A a \in AcqIds :
          loads'[a] # loads[a]
            => \A j \in Cells \ { loads[a].index } :
                  /\ images'[j] = images[j]
                  /\ (j \in taintedIndices') <=> (j \in taintedIndices) ]_vars

\* an acquisition has just loaded at stage 1 or 2 and is about to resume while
\* another cell holds a tainted bitmap
C18_Witness ==
    \E a \in AcqIds, b \in AcqIds :
       /\ loads[a].index # loads[b].index
       /\ loads[b].pc = "done" /\ loads[b].stage = 3
       /\ images[loads[b].index] = Bitmap(b, 3)
       /\ loads[b].index \in taintedIndices
       /\ loads[a].kind = "url" /\ loads[a].stage < 3
       /\ microtask = a

\* C19: when no handler is mid-execution, a cell is in TaintSet exactly when
\* the bitmap in its slot was written by a stage-3 load.
C19_TaintIffStageThree ==
    Idle => \A i \in Cells : (i \in taintedIndices) <=> (images[i].stage = 3)

\* a file and a URL were acquired for the same cell, the file loaded first,
\* the URL at stage 3 afterwards
C19_Witness ==
    \E u \in AcqIds, f \in AcqIds :
       /\ loads[u].kind = "url" /\ loads[f].kind = "file"
       /\ loads[u].index = loads[f].index
       /\ loads[u].pc = "done" /\ loads[f].pc = "done"
       /\ images[loads[u].index] = Bitmap(u, 3)
       /\ loads[u].index \in taintedIndices
       /\ Idle

\* C20 (as claimed): an export that reaches the serializer serializes a
\* surface that shows every slot's current bitmap and no stage-3 bitmap.
C20_ExportSerializesCurrentGrid ==
    [][ (downloadImage /\ toDataURLCalls' = 1)
          => \A i \in Cells :
                /\ surface.cells[i].img = images[i]
                /\ surface.cells[i].img.stage # 3 ]_vars

====
